---- MODULE Spec2Model ----
(***************************************************************************)
(* Object3D scene-graph nodes (src/src/3d/object3d.js): the parent/child   *)
(* hierarchy, the two validity flags, the cached local and world models    *)
(* and the update traversal.                                               *)
(*                                                                         *)
(* The math library (Vec3, Quat, Mat4) is not part of the sources at hand. *)
(* It is modelled by the affine maps x |-> d*x + t on Z_Modulus^3 with a   *)
(* diagonal linear part: translations, component-wise scalings and the     *)
(* half-turns about the three axes.  Composition is not commutative.       *)
(***************************************************************************)
EXTENDS Integers, Sequences, FiniteSets, TLC

NumNodes == 3
Modulus == 3
MaxStack == 4
MaxCalls == 5
MaxPairCalls == 4
MaxMutCalls == 3
MaxListeners == 1
MaxPassCalls == 5
MaxCallbacks == 2
MaxActive == 2

Nodes == 1..NumNodes
None == 0

VARIABLES
    parent,                 \* _parent of every node (None: undefined)
    children,               \* _children of every node, in insertion order
    origin,                 \* _origin
    orientation,            \* _orientation
    scale,                  \* _scale
    is_model_valid,         \* _is_model_valid
    is_local_model_valid,   \* _is_local_model_valid ("undefined" until first set)
    local_model,            \* _local_model
    world_model,            \* _world_model
    listeners,              \* the callbacks registered on every node, in order
    stack,                  \* calls of update/clearChildren/destroy in progress
    listening,              \* a callback invoked by the latest step may be running
    call,                   \* the latest call made by the caller: operation, receiver, argument
    result,                 \* what that call returned or threw ("pending" until it does)
    events,                 \* notify() calls made since that call began, in order
    reentered,              \* a callback has made a call of its own since that call began
    before,                 \* the caller's call before the latest one, where it is kept
    entry,                  \* the objects as the caller's latest call found them, where kept
    calls_left,             \* calls the caller will still make (Unbounded: any number)
    program                 \* a Program (src/src/gl/program.js) and the promises of its ready()

vars == <<parent, children, origin, orientation, scale, is_model_valid,
          is_local_model_valid, local_model, world_model, listeners, stack,
          listening, call, result, events, reentered, before, entry,
          calls_left, program>>

----------------------------------------------------------------------------
(* Vec3, Quat, Mat4 *)

Coord == 0..(Modulus - 1)
Minus1 == Modulus - 1

VecNull == <<0, 0, 0>>
VecIdentity == <<1, 1, 1>>
VecAdd(u, v) == [i \in 1..3 |-> (u[i] + v[i]) % Modulus]
VecMul(u, v) == [i \in 1..3 |-> (u[i] * v[i]) % Modulus]

X_AXIS == 1
Y_AXIS == 2
Z_AXIS == 3

QuatIdentity == <<1, 1, 1>>
\* theta counts half-turns about a coordinate axis
FromAxisRotation(theta, axis) ==
    IF theta % 2 = 0 THEN QuatIdentity
    ELSE [i \in 1..3 |-> IF i = axis THEN 1 ELSE Minus1]
QuatMul(q, r) == VecMul(q, r)

MatIdentity == [d |-> VecIdentity, t |-> VecNull]
MatMultiply(a, b) == [d |-> VecMul(a.d, b.d), t |-> VecAdd(a.t, VecMul(a.d, b.t))]
MatTranslate(m, v) == MatMultiply(m, [d |-> VecIdentity, t |-> v])
MatRotateQuat(m, q) == MatMultiply(m, [d |-> q, t |-> VecNull])
MatScaleVec(m, s) == MatMultiply(m, [d |-> s, t |-> VecNull])

----------------------------------------------------------------------------
(* The state as one record, so that one call can use another *)

Cur == [parent |-> parent, children |-> children, origin |-> origin,
        orientation |-> orientation, scale |-> scale,
        is_model_valid |-> is_model_valid,
        is_local_model_valid |-> is_local_model_valid,
        local_model |-> local_model, world_model |-> world_model,
        listeners |-> listeners, stack |-> stack, listening |-> listening,
        events |-> events]

Install(S) ==
    /\ parent' = S.parent
    /\ children' = S.children
    /\ origin' = S.origin
    /\ orientation' = S.orientation
    /\ scale' = S.scale
    /\ is_model_valid' = S.is_model_valid
    /\ is_local_model_valid' = S.is_local_model_valid
    /\ local_model' = S.local_model
    /\ world_model' = S.world_model
    /\ listeners' = S.listeners
    /\ stack' = S.stack
    /\ listening' = (S.listening /\ S.stack # <<>>)
    /\ events' = S.events
    /\ program' = program

(* Listenable *)

\* the callbacks registered on a node for an event, in registration order
Registered(S, target, name) ==
    LET ForName(l) == l.name = name
        ls == SelectSeq(S.listeners[target], ForName)
    IN [i \in 1..Len(ls) |-> ls[i].id]

\* an event: its name, the node that fired it, its payload and the callbacks
\* that were invoked with it, in order
Event(name, target, arg, to) == [name |-> name, target |-> target, arg |-> arg, to |-> to]

Notify(S, target, name, arg) ==
    LET to == Registered(S, target, name)
    IN [S EXCEPT !.events = Append(@, Event(name, target, arg, to)),
                 !.listening = @ \/ to # <<>>]

ClearListeners(S, n) == [S EXCEPT !.listeners[n] = <<>>]

IndexOf(seq, x) == CHOOSE i \in 1..Len(seq) : seq[i] = x
RemoveAt(seq, j) == [i \in 1..(Len(seq) - 1) |-> IF i < j THEN seq[i] ELSE seq[i + 1]]

----------------------------------------------------------------------------
(* Object3D *)

Constructed ==
    /\ parent = [n \in Nodes |-> None]
    /\ children = [n \in Nodes |-> <<>>]
    /\ origin = [n \in Nodes |-> VecNull]
    /\ orientation = [n \in Nodes |-> QuatIdentity]
    /\ scale = [n \in Nodes |-> VecIdentity]
    /\ is_model_valid = [n \in Nodes |-> FALSE]
    /\ is_local_model_valid = [n \in Nodes |-> "undefined"]
    /\ local_model = [n \in Nodes |-> MatIdentity]
    /\ world_model = [n \in Nodes |-> MatIdentity]
    /\ listeners = [n \in Nodes |-> <<>>]

InvalidateModel(S, n) == [S EXCEPT !.is_model_valid[n] = FALSE]

\* (mutant) _invalidateLocalModel forgets this._invalidateModel()
InvalidateLocalModelOnly(S, n) == [S EXCEPT !.is_local_model_valid[n] = "false"]

InvalidateLocalModel(S, n) ==
    InvalidateModel([S EXCEPT !.is_local_model_valid[n] = "false"], n)

\* (mutant) the setter forgets this._invalidateModel()
SetParentKeepsFlag(S, n, p) == [S EXCEPT !.parent[n] = p]

SetParent(S, n, p) == InvalidateModel([S EXCEPT !.parent[n] = p], n)

HasChildIn(S, p, c) == \E i \in 1..Len(S.children[p]) : S.children[p][i] = c
hasChild(p, c) == HasChildIn(Cur, p, c)


\* a call of update, clearChildren or destroy in progress, with its iterator
\* over this._children; nested: the call was made by a callback
Frame(op, n, nested) == [op |-> op, node |-> n, cursor |-> 0, nested |-> nested]

\* a call as it is made: root tells whether the receiver had no parent then
Call(op, self, arg) ==
    [op |-> op, self |-> self, arg |-> arg, root |-> parent[self] = None]
NoCall == [op |-> "new", self |-> None, arg |-> None, root |-> TRUE]

\* _children.delete(object): an iterator that has passed the entry moves back
DeleteChild(S, p, c) ==
    LET j == IndexOf(S.children[p], c)
    IN [S EXCEPT !.children[p] = RemoveAt(S.children[p], j),
                 !.stack = [k \in 1..Len(S.stack) |->
                              IF S.stack[k].node = p /\ S.stack[k].cursor >= j
                              THEN [S.stack[k] EXCEPT !.cursor = S.stack[k].cursor - 1]
                              ELSE S.stack[k]]]

\* the body of addChild once both checks have passed
AddChildIn(S, p, c) ==
    Notify(SetParent([S EXCEPT !.children[p] = Append(S.children[p], c)], c, p),
           p, "add", c)

\* (mutant) removeChild forgets object.parent = undefined
RemoveChildKeepsParent(S, p, c) ==
    IF c = None \/ ~HasChildIn(S, p, c)
    THEN S
    ELSE Notify(DeleteChild(S, p, c), p, "remove", c)

\* removeChild as called from clearChildren and destroy (return value dropped)
RemoveChildIn(S, p, c) ==
    IF c = None \/ ~HasChildIn(S, p, c)
    THEN S
    ELSE Notify(SetParent(DeleteChild(S, p, c), c, None), p, "remove", c)

LocalModelOf(o, q, s) ==
    MatScaleVec(MatRotateQuat(MatTranslate(MatIdentity, o), q), s)

\* (mutant) the local model is multiplied by the parent's world model
ComputeWorldModelSwapped(S, n) ==
    IF S.parent[n] # None
    THEN [S EXCEPT !.world_model[n] =
                       MatMultiply(S.local_model[n], S.world_model[S.parent[n]])]
    ELSE [S EXCEPT !.world_model[n] = S.local_model[n]]

ComputeWorldModel(S, n) ==
    IF S.parent[n] # None
    THEN [S EXCEPT !.world_model[n] =
                       MatMultiply(S.world_model[S.parent[n]], S.local_model[n])]
    ELSE [S EXCEPT !.world_model[n] = S.local_model[n]]

\* (mutant) _revalidateModel leaves the children as they are
RevalidateModelAlone(S, n) ==
    LET localModelChanged == S.is_local_model_valid[n] # "true"
        S1 == IF localModelChanged
              THEN [S EXCEPT !.local_model[n] =
                                 LocalModelOf(S.origin[n], S.orientation[n], S.scale[n]),
                             !.is_local_model_valid[n] = "true"]
              ELSE S
        S2 == ComputeWorldModel(S1, n)
        S3 == [S2 EXCEPT !.is_model_valid[n] = TRUE]
        S5 == IF localModelChanged
              THEN Notify(S3, n, "localModel", S3.local_model[n])
              ELSE S3
    IN Notify(S5, n, "model", S5.world_model[n])

\* (mutant) _revalidateModel calls child._invalidateLocalModel()
RevalidateModelDirtiesLocal(S, n) ==
    LET localModelChanged == S.is_local_model_valid[n] # "true"
        S1 == IF localModelChanged
              THEN [S EXCEPT !.local_model[n] =
                                 LocalModelOf(S.origin[n], S.orientation[n], S.scale[n]),
                             !.is_local_model_valid[n] = "true"]
              ELSE S
        S2 == ComputeWorldModel(S1, n)
        S3 == [S2 EXCEPT !.is_model_valid[n] = TRUE]
        S4 == [S3 EXCEPT !.is_model_valid =
                             [m \in Nodes |-> IF HasChildIn(S3, n, m)
                                              THEN FALSE
                                              ELSE S3.is_model_valid[m]],
                         !.is_local_model_valid =
                             [m \in Nodes |-> IF HasChildIn(S3, n, m)
                                              THEN "false"
                                              ELSE S3.is_local_model_valid[m]]]
        S5 == IF localModelChanged
              THEN Notify(S4, n, "localModel", S4.local_model[n])
              ELSE S4
    IN Notify(S5, n, "model", S5.world_model[n])

\* (mutant) _revalidateModel without this._local_model.identity()
RevalidateModelAccumulates(S, n) ==
    LET localModelChanged == S.is_local_model_valid[n] # "true"
        S1 == IF localModelChanged
              THEN [S EXCEPT !.local_model[n] =
                                 MatMultiply(S.local_model[n],
                                     LocalModelOf(S.origin[n], S.orientation[n], S.scale[n])),
                             !.is_local_model_valid[n] = "true"]
              ELSE S
        S2 == ComputeWorldModel(S1, n)
        S3 == [S2 EXCEPT !.is_model_valid[n] = TRUE]
        S4 == [S3 EXCEPT !.is_model_valid =
                             [m \in Nodes |-> IF HasChildIn(S3, n, m)
                                              THEN FALSE
                                              ELSE S3.is_model_valid[m]]]
        S5 == IF localModelChanged
              THEN Notify(S4, n, "localModel", S4.local_model[n])
              ELSE S4
    IN Notify(S5, n, "model", S5.world_model[n])

RevalidateModel(S, n) ==
    LET localModelChanged == S.is_local_model_valid[n] # "true"
        S1 == IF localModelChanged
              THEN [S EXCEPT !.local_model[n] =
                                 LocalModelOf(S.origin[n], S.orientation[n], S.scale[n]),
                             !.is_local_model_valid[n] = "true"]
              ELSE S
        S2 == ComputeWorldModel(S1, n)
        S3 == [S2 EXCEPT !.is_model_valid[n] = TRUE]
        S4 == [S3 EXCEPT !.is_model_valid =
                             [m \in Nodes |-> IF HasChildIn(S3, n, m)
                                              THEN FALSE
                                              ELSE S3.is_model_valid[m]]]
        S5 == IF localModelChanged
              THEN Notify(S4, n, "localModel", S4.local_model[n])
              ELSE S4
    IN Notify(S5, n, "model", S5.world_model[n])

\* update(): the part before the loop over the children
UpdateEnter(S, n, nested) ==
    LET S1 == IF ~S.is_model_valid[n] THEN RevalidateModel(S, n) ELSE S
    IN [S1 EXCEPT !.stack = Append(S1.stack, Frame("update", n, nested))]

\* (mutant) destroy forgets this.clearListeners()
DestroyEnterKeepsListeners(S, n, nested) ==
    LET S1 == IF S.parent[n] # None THEN RemoveChildIn(S, S.parent[n], n) ELSE S
    IN [S1 EXCEPT !.stack = Append(S1.stack, Frame("destroy", n, nested))]

\* destroy(): the part before the loop over the children
DestroyEnter(S, n, nested) ==
    LET S1 == IF S.parent[n] # None THEN RemoveChildIn(S, S.parent[n], n) ELSE S
        S2 == ClearListeners(S1, n)
    IN [S2 EXCEPT !.stack = Append(S2.stack, Frame("destroy", n, nested))]

----------------------------------------------------------------------------
(* Program (src/src/gl/program.js): ready() and the promises it chains.    *)
(* What the platform decides (a fetch completing or failing, the status of *)
(* a compilation, of the link and of the validation, the number of active  *)
(* uniforms and attributes) is chosen by the action's parameters.          *)

ShaderTypes == {"VERTEX_SHADER", "FRAGMENT_SHADER"}

\* the order of the array ready() passes to Promise.all
ShaderOrder == <<"VERTEX_SHADER", "FRAGMENT_SHADER">>

ProgramConstructed ==
    [shaders |-> {},                \* the keys of this._shaders
     has_program |-> FALSE,         \* this._program is defined
     attached |-> <<>>,             \* the shaders attached to it, in order
     link |-> "none",               \* LINK_STATUS: none, ok, failed
     validate |-> "none",           \* VALIDATE_STATUS: none, ok, failed
     uniforms |-> {},               \* this._parameters.get(ACTIVE_UNIFORMS)
     attributes |-> {},             \* this._parameters.get(ACTIVE_ATTRIBUTES)
     created |-> [t \in ShaderTypes |-> "none"],   \* the promise of createShader(t)
     all |-> "none",                \* Promise.all(shaders)
     compiled |-> "none",           \* .then(compileProgram)
     qualified |-> "none",          \* the Promise.all(params) of qualifyAll()
     returned |-> "none",           \* .then(qualifyAll): what ready() returns
     log |-> <<>>]                  \* the stages run, in order

----------------------------------------------------------------------------
(* Calls.  The caller makes a call when no call is in progress; a callback *)
(* makes one while it runs, inside the call that notified it.              *)

Unbounded == 0 - 1

Nested == stack # <<>>

CanCall == calls_left # 0 /\ (stack = <<>> \/ listening)

Spent == IF calls_left > 0 THEN calls_left - 1 ELSE calls_left

\* the state a call starts from
Entering ==
    IF Nested
    THEN [Cur EXCEPT !.listening = FALSE]
    ELSE [Cur EXCEPT !.events = <<>>, !.listening = FALSE]

\* what the objects hold, apart from the calls in progress
Snapshot(S) ==
    [parent |-> S.parent, children |-> S.children,
     is_model_valid |-> S.is_model_valid,
     is_local_model_valid |-> S.is_local_model_valid,
     local_model |-> S.local_model, world_model |-> S.world_model,
     listeners |-> S.listeners]

\* the call c leaves state S and, unless it is still in progress, returns value;
\* the callback that made a call runs on when the call has returned
Made(c, S, value) ==
    /\ Install(IF Nested /\ Len(S.stack) = Len(stack)
               THEN [S EXCEPT !.listening = TRUE]
               ELSE S)
    /\ IF Nested
       THEN /\ reentered' = TRUE
            /\ UNCHANGED <<call, result, before, entry>>
       ELSE /\ reentered' = FALSE
            /\ call' = c
            /\ before' = IF before.kept
                         THEN [kept |-> TRUE, call |-> call, result |-> result,
                               events |-> events]
                         ELSE before
            /\ entry' = IF entry.kept
                        THEN [kept |-> TRUE, state |-> Snapshot(Cur)]
                        ELSE entry
            /\ result' = IF S.stack = <<>> THEN value ELSE "pending"
    /\ calls_left' = Spent

\* (mutant) addChild without the test of object.parent
addChildUnchecked(p, c) ==
    /\ CanCall
    /\ IF hasChild(p, c)
       THEN Made(Call("addChild", p, c), Entering, "undefined")
       ELSE Made(Call("addChild", p, c), AddChildIn(Entering, p, c), "undefined")

addChild(p, c) ==
    /\ CanCall
    /\ IF parent[c] # None
       THEN Made(Call("addChild", p, c), Entering, "Error")
       ELSE IF hasChild(p, c)
            THEN Made(Call("addChild", p, c), Entering, "undefined")
            ELSE Made(Call("addChild", p, c), AddChildIn(Entering, p, c), "undefined")

\* (mutant) removeChild without the test of hasChild
removeChildUnchecked(p, c) ==
    /\ CanCall
    /\ IF c = None
       THEN Made(Call("removeChild", p, c), Entering, "false")
       ELSE Made(Call("removeChild", p, c),
                 Notify(SetParent(IF hasChild(p, c)
                                  THEN DeleteChild(Entering, p, c)
                                  ELSE Entering, c, None), p, "remove", c),
                 "true")

removeChild(p, c) ==
    /\ CanCall
    /\ IF c = None \/ ~hasChild(p, c)
       THEN Made(Call("removeChild", p, c), Entering, "false")
       ELSE Made(Call("removeChild", p, c), RemoveChildIn(Entering, p, c), "true")

clearChildren(p) ==
    /\ CanCall
    /\ Len(stack) < MaxStack
    /\ Made(Call("clearChildren", p, None),
            [Entering EXCEPT !.stack = Append(stack, Frame("clearChildren", p, Nested))],
            "undefined")

update(n) ==
    /\ CanCall
    /\ Len(stack) < MaxStack
    /\ Made(Call("update", n, None), UpdateEnter(Entering, n, Nested), "undefined")

destroy(n) ==
    /\ CanCall
    /\ Len(stack) < MaxStack
    /\ Made(Call("destroy", n, None), DestroyEnter(Entering, n, Nested), "undefined")

\* Listenable.on: register callback id on node n for the event name
on(n, name, id) ==
    /\ stack = <<>> /\ calls_left # 0
    /\ \A m \in Nodes : \A i \in 1..Len(listeners[m]) : listeners[m][i].id # id
    /\ Made(Call("on", n, name),
            [Entering EXCEPT !.listeners[n] = Append(listeners[n], [name |-> name, id |-> id])],
            "undefined")

----------------------------------------------------------------------------
(* One step of the innermost call in progress: the next round of its loop  *)
(* over this._children, or its return.  The callbacks it had invoked have  *)
(* returned.                                                               *)

Top == stack[Len(stack)]
HasNext == Top.cursor < Len(children[Top.node])
NextChild == children[Top.node][Top.cursor + 1]
Advanced == [Cur EXCEPT !.stack[Len(stack)].cursor = Top.cursor + 1,
                        !.listening = FALSE]
Popped(S) == [S EXCEPT !.stack = SubSeq(S.stack, 1, Len(S.stack) - 1),
                       !.listening = S.listening \/ Top.nested]

Continues(S) ==
    /\ Install(S)
    /\ result' = IF S.stack = <<>> THEN "undefined" ELSE "pending"
    /\ UNCHANGED <<call, reentered, before, entry, calls_left>>

UpdateChild ==
    /\ stack # <<>> /\ Top.op = "update" /\ HasNext
    /\ Len(stack) < MaxStack
    /\ Continues(UpdateEnter(Advanced, NextChild, FALSE))

\* (mutant) the loop of clearChildren deletes from the Set without removeChild
ClearChildDeletesOnly ==
    /\ stack # <<>> /\ Top.op = "clearChildren" /\ HasNext
    /\ Continues(DeleteChild(Advanced, Top.node, NextChild))

ClearChild ==
    /\ stack # <<>> /\ Top.op = "clearChildren" /\ HasNext
    /\ Continues(RemoveChildIn(Advanced, Top.node, NextChild))

DestroyChild ==
    /\ stack # <<>> /\ Top.op = "destroy" /\ HasNext
    /\ Len(stack) < MaxStack
    /\ Continues(DestroyEnter(RemoveChildIn(Advanced, Top.node, NextChild),
                              NextChild, FALSE))

LoopEnd ==
    /\ stack # <<>> /\ ~HasNext
    /\ IF Top.op = "destroy"
       THEN Continues(Popped(Notify([Cur EXCEPT !.listening = FALSE],
                                    Top.node, "destroy", None)))
       ELSE Continues(Popped([Cur EXCEPT !.listening = FALSE]))

----------------------------------------------------------------------------
(* Property mutations *)

AxisVec(axis, delta) == [i \in 1..3 |-> IF i = axis THEN delta % Modulus ELSE 0]

\* (mutant) the mutation notifies twice
MutatedTwice(S, n, name) ==
    LET S1 == InvalidateLocalModel(S, n)
        v == IF name = "origin" THEN S1.origin[n]
             ELSE IF name = "orientation" THEN S1.orientation[n]
             ELSE S1.scale[n]
    IN Notify(Notify(S1, n, name, v), n, name, v)

\* this._invalidateLocalModel(); this.notify(name, value)
Mutated(S, n, name) ==
    LET S1 == InvalidateLocalModel(S, n)
    IN Notify(S1, n, name,
              IF name = "origin" THEN S1.origin[n]
              ELSE IF name = "orientation" THEN S1.orientation[n]
              ELSE S1.scale[n])

Rotated(S, n, theta, axis) ==
    [S EXCEPT !.orientation[n] = QuatMul(S.orientation[n], FromAxisRotation(theta, axis))]

Translated(S, n, v) == [S EXCEPT !.origin[n] = VecAdd(S.origin[n], v)]

setOrigin(n, v3) ==
    /\ CanCall
    /\ Made(Call("origin", n, v3),
            Mutated([Entering EXCEPT !.origin[n] = v3], n, "origin"), "undefined")

setOrientation(n, q) ==
    /\ CanCall
    /\ Made(Call("orientation", n, q),
            Mutated([Entering EXCEPT !.orientation[n] = q], n, "orientation"), "undefined")

setSize(n, v3) ==
    /\ CanCall
    /\ Made(Call("size", n, v3),
            Mutated([Entering EXCEPT !.scale[n] = v3], n, "size"), "undefined")

scaleBy(n, v) ==
    /\ CanCall
    /\ Made(Call("scale", n, v),
            Mutated([Entering EXCEPT !.scale[n] = VecMul(scale[n], v)], n, "size"),
            "undefined")

translate(n, v) ==
    /\ CanCall
    /\ Made(Call("translate", n, v),
            Mutated(Translated(Entering, n, v), n, "origin"), "undefined")

translateX(n, delta_x) ==
    /\ CanCall
    /\ Made(Call("translateX", n, delta_x),
            Mutated(Translated(Entering, n, AxisVec(X_AXIS, delta_x)), n, "origin"),
            "undefined")

translateY(n, delta_y) ==
    /\ CanCall
    /\ Made(Call("translateY", n, delta_y),
            Mutated(Translated(Entering, n, AxisVec(Y_AXIS, delta_y)), n, "origin"),
            "undefined")

translateZ(n, delta_z) ==
    /\ CanCall
    /\ Made(Call("translateZ", n, delta_z),
            Mutated(Translated(Entering, n, AxisVec(Z_AXIS, delta_z)), n, "origin"),
            "undefined")

rotate(n, theta, axis) ==
    /\ CanCall
    /\ Made(Call("rotate", n, <<theta, axis>>),
            Mutated(Rotated(Entering, n, theta, axis), n, "orientation"), "undefined")

rotateX(n, theta) ==
    /\ CanCall
    /\ Made(Call("rotateX", n, theta),
            Mutated(Rotated(Entering, n, theta, X_AXIS), n, "orientation"), "undefined")

rotateY(n, theta) ==
    /\ CanCall
    /\ Made(Call("rotateY", n, theta),
            Mutated(Rotated(Entering, n, theta, Y_AXIS), n, "orientation"), "this")

rotateZ(n, theta) ==
    /\ CanCall
    /\ Made(Call("rotateZ", n, theta),
            Mutated(Rotated(Entering, n, theta, Z_AXIS), n, "orientation"), "this")

----------------------------------------------------------------------------
(* Specifications *)

StartedAt(budget, keep, keep_entry) ==
    /\ Constructed
    /\ before = [kept |-> keep, call |-> NoCall,
                 result |-> "undefined", events |-> <<>>]
    /\ stack = <<>>
    /\ listening = FALSE
    /\ call = NoCall
    /\ result = "undefined"
    /\ events = <<>>
    /\ reentered = FALSE
    /\ calls_left = budget
    /\ entry = [kept |-> keep_entry, state |-> Snapshot(Cur)]
    /\ program = ProgramConstructed

Started(budget, keep) == StartedAt(budget, keep, FALSE)

Structural ==
    \/ \E p \in Nodes, c \in Nodes : addChild(p, c)
    \/ \E p \in Nodes, c \in Nodes \cup {None} : removeChild(p, c)
    \/ \E p \in Nodes : clearChildren(p)
    \/ \E n \in Nodes : destroy(n)
    \/ \E n \in Nodes : update(n)
    \/ UpdateChild
    \/ ClearChild
    \/ DestroyChild
    \/ LoopEnd

\* the hierarchy alone: no callbacks, every node keeps the transform it was
\* constructed with, any number of calls
InitH == Started(Unbounded, FALSE)
NextH == Structural
SpecH == InitH /\ [][NextH]_vars

\* the hierarchy with callbacks registered for the events of the traversals
\* and of the structural changes; a callback may make any structural call;
\* MaxCalls calls in all
EventNames == {"origin", "orientation", "size", "localModel", "model",
               "add", "remove", "destroy"}
ListenerIds == 1..MaxListeners
InitL == Started(MaxCalls, FALSE)
NextL ==
    \/ Structural
    \/ \E n \in Nodes, name \in {"model", "add", "remove"}, id \in ListenerIds :
           on(n, name, id)
SpecL == InitL /\ [][NextL]_vars

\* the hierarchy alone, MaxPairCalls calls, the call before the latest kept
InitP == Started(MaxPairCalls, TRUE)
SpecP == InitP /\ [][NextH]_vars

\* the hierarchy and the transforms: one mutation of each property and one
\* setter, no callbacks, MaxCalls calls
StepVec == <<1, 0, 0>>
GrowVec == <<2, 1, 1>>
InitT == Started(MaxCalls, FALSE)
NextT ==
    \/ Structural
    \/ \E n \in Nodes : setOrigin(n, StepVec)
    \/ \E n \in Nodes : translateX(n, 1)
    \/ \E n \in Nodes : rotateY(n, 1)
    \/ \E n \in Nodes : scaleBy(n, GrowVec)
SpecT == InitT /\ [][NextT]_vars

\* every property mutation, on nodes that addChild and update have brought
\* into any combination of flags, MaxMutCalls calls
Thetas == {0, 1}
Deltas == {0, 1}
Axes == {X_AXIS, Y_AXIS, Z_AXIS}
InitM == Started(MaxMutCalls, FALSE)
NextM ==
    \/ \E p \in Nodes, c \in Nodes : addChild(p, c)
    \/ \E n \in Nodes : update(n)
    \/ UpdateChild
    \/ LoopEnd
    \/ \E n \in Nodes, v \in {VecNull, StepVec} : setOrigin(n, v)
    \/ \E n \in Nodes, q \in {QuatIdentity, FromAxisRotation(1, Z_AXIS)} :
           setOrientation(n, q)
    \/ \E n \in Nodes, v \in {VecIdentity, GrowVec} : setSize(n, v)
    \/ \E n \in Nodes, v \in {VecIdentity, GrowVec} : scaleBy(n, v)
    \/ \E n \in Nodes, v \in {VecNull, StepVec} : translate(n, v)
    \/ \E n \in Nodes, d \in Deltas : translateX(n, d)
    \/ \E n \in Nodes, d \in Deltas : translateY(n, d)
    \/ \E n \in Nodes, d \in Deltas : translateZ(n, d)
    \/ \E n \in Nodes, theta \in Thetas, axis \in Axes : rotate(n, theta, axis)
    \/ \E n \in Nodes, theta \in Thetas : rotateX(n, theta)
    \/ \E n \in Nodes, theta \in Thetas : rotateY(n, theta)
    \/ \E n \in Nodes, theta \in Thetas : rotateZ(n, theta)
SpecM == InitM /\ [][NextM]_vars

\* the hierarchy and one mutation, with callbacks registered for the events
\* of update, of the mutation and of removeChild, which may make any of
\* these calls; MaxCalls calls in all
NextC ==
    \/ Structural
    \/ \E n \in Nodes : setOrigin(n, StepVec)
    \/ \E n \in Nodes, name \in {"model", "origin", "remove"}, id \in ListenerIds :
           on(n, name, id)
SpecC == InitT /\ [][NextC]_vars

\* building and taking apart the hierarchy, with callbacks registered for the
\* structural events, which may make any of these calls; MaxCalls calls in
\* all; the objects as the latest call found them are kept
InitD == StartedAt(MaxCalls, FALSE, TRUE)
NextD ==
    \/ \E p \in Nodes, c \in Nodes : addChild(p, c)
    \/ \E p \in Nodes, c \in Nodes : removeChild(p, c)
    \/ \E p \in Nodes : clearChildren(p)
    \/ \E n \in Nodes : destroy(n)
    \/ ClearChild
    \/ DestroyChild
    \/ LoopEnd
    \/ \E n \in Nodes, name \in {"add", "remove", "destroy"}, id \in ListenerIds :
           on(n, name, id)
SpecD == InitD /\ [][NextD]_vars

\* mutations of the origin and the size of nodes on which up to MaxCallbacks
\* callbacks are registered for these events, in any order; MaxCalls calls
CallbackIds == 1..MaxCallbacks
InitN == Started(MaxCalls, FALSE)
NextN ==
    \/ \E n \in Nodes, name \in {"origin", "size"}, id \in CallbackIds : on(n, name, id)
    \/ \E n \in Nodes, v \in {VecNull, StepVec} : setOrigin(n, v)
    \/ \E n \in Nodes : translateX(n, 1)
    \/ \E n \in Nodes : setSize(n, GrowVec)
SpecN == InitN /\ [][NextN]_vars

\* update passes over hierarchies built with addChild and removeChild, between
\* the mutations of SpecT; no callbacks; MaxPassCalls calls; the objects as
\* the latest call found them are kept
InitU == StartedAt(MaxPassCalls, FALSE, TRUE)
NextU ==
    \/ \E p \in Nodes, c \in Nodes : addChild(p, c)
    \/ \E p \in Nodes, c \in Nodes : removeChild(p, c)
    \/ \E n \in Nodes : update(n)
    \/ UpdateChild
    \/ LoopEnd
    \/ \E n \in Nodes : setOrigin(n, StepVec)
    \/ \E n \in Nodes : translateX(n, 1)
    \/ \E n \in Nodes : rotateY(n, 1)
    \/ \E n \in Nodes : scaleBy(n, GrowVec)
SpecU == InitU /\ [][NextU]_vars

\* successive update passes over hierarchies built with addChild, between
\* translations; no callbacks; MaxPassCalls calls; the objects as the latest
\* call found them and the call before it are kept
InitV == StartedAt(MaxPassCalls, TRUE, TRUE)
NextV ==
    \/ \E p \in Nodes, c \in Nodes : addChild(p, c)
    \/ \E n \in Nodes : update(n)
    \/ UpdateChild
    \/ LoopEnd
    \/ \E n \in Nodes : translateX(n, 1)
SpecV == InitV /\ [][NextV]_vars

\* destroy on hierarchies built with addChild, with up to MaxCallbacks
\* callbacks registered for remove and destroy, which may make any of these
\* calls; MaxCalls calls in all; the objects as the latest call found them
\* are kept
InitE == StartedAt(MaxCalls, FALSE, TRUE)
NextE ==
    \/ \E p \in Nodes, c \in Nodes : addChild(p, c)
    \/ \E p \in Nodes, c \in Nodes : removeChild(p, c)
    \/ \E n \in Nodes : destroy(n)
    \/ DestroyChild
    \/ LoopEnd
    \/ \E n \in Nodes, name \in {"remove", "destroy"}, id \in CallbackIds :
           on(n, name, id)
SpecE == InitE /\ [][NextE]_vars

----------------------------------------------------------------------------
(* What the claims are stated with *)

IsCall(c, op, self, arg) == c.op = op /\ c.self = self /\ c.arg = arg

IsEvent(e, name, target, arg) == e.name = name /\ e.target = target /\ e.arg = arg

ChildSet(n) == {children[n][i] : i \in 1..Len(children[n])}

RECURSIVE Closure(_, _)
Closure(set, k) ==
    IF k = 0 THEN set
    ELSE Closure(set \cup UNION {ChildSet(m) : m \in set}, k - 1)

\* the nodes reachable from n through one or more child sets
Descendants(n) == Closure(ChildSet(n), NumNodes)

\* the same in the objects as a call found them
ChildSetIn(S, n) == {S.children[n][i] : i \in 1..Len(S.children[n])}

RECURSIVE ClosureIn(_, _, _)
ClosureIn(S, set, k) ==
    IF k = 0 THEN set
    ELSE ClosureIn(S, set \cup UNION {ChildSetIn(S, m) : m \in set}, k - 1)

DescendantsIn(S, n) == ClosureIn(S, ChildSetIn(S, n), NumNodes)

\* the events of the latest call with this name, fired by this node
EventsOf(name, target) ==
    {i \in 1..Len(events) : events[i].name = name /\ events[i].target = target}

\* the hierarchy a call found had no cycle
WasAcyclic == \A m \in Nodes : m \notin DescendantsIn(entry.state, m)

\* seq without the entries equal to x
Without(seq, x) ==
    LET Other(y) == y # x
    IN SelectSeq(seq, Other)

\* the caller's update() has returned and no callback has made a call
PassDone ==
    stack = <<>> /\ call.op = "update" /\ ~reentered

Flags == <<is_model_valid, is_local_model_valid>>

\* what _computeWorldModel makes of the cached matrices, as they are now
ComposedWorld(n) ==
    IF parent[n] # None
    THEN MatMultiply(world_model[parent[n]], local_model[n])
    ELSE local_model[n]

\* the caller's update() is in progress, began at a root, and every call in
\* progress is part of its traversal
InRootPass ==
    /\ stack # <<>>
    /\ call.op = "update" /\ call.root
    /\ \A k \in 1..Len(stack) : stack[k].op = "update" /\ ~stack[k].nested

\* this step calls update() on the next child of the innermost node
CallsChildUpdate ==
    /\ Len(stack') = Len(stack) + 1
    /\ ~stack'[Len(stack')].nested

----------------------------------------------------------------------------
(* C1: after update() on the root of a tree, whatever mutations and        *)
(* re-parentings came before and no callback having made a call, every     *)
(* node of the tree has both flags true, its local model is the one of     *)
(* its latest origin, orientation and scale, the root's world model is     *)
(* its local model and every other node's world model is its parent's      *)
(* world model times its own local model.                                  *)

C1_UpdateRevalidatesTree ==
    \A r \in Nodes :
        (/\ stack = <<>> /\ IsCall(call, "update", r, None)
         /\ call.root /\ ~reentered)
        => \A n \in {r} \cup Descendants(r) :
              /\ is_local_model_valid[n] = "true"
              /\ is_model_valid[n]
              /\ local_model[n] = LocalModelOf(origin[n], orientation[n], scale[n])
              /\ world_model[n] = IF n = r
                                  THEN local_model[n]
                                  ELSE MatMultiply(world_model[parent[n]], local_model[n])

\* the root was changed while its child had both models cached: the pass
\* has recomputed the local model of the root alone and both world models
C1_Witness ==
    \E r \in Nodes, c \in Nodes :
        /\ stack = <<>> /\ IsCall(call, "update", r, None) /\ call.root
        /\ r # c /\ parent[c] = r
        /\ local_model[r] # MatIdentity /\ local_model[c] # MatIdentity
        /\ Len(events) = 3
        /\ events[1].name = "localModel" /\ events[1].target = r
        /\ events[2].name = "model" /\ events[2].target = r
        /\ events[3].name = "model" /\ events[3].target = c

----------------------------------------------------------------------------
(* C2: in an update() traversal begun at a root, no descendant computes    *)
(* its world model from a parent whose model is invalid at that moment:    *)
(* when update() is called on a child, the node that calls it is the       *)
(* child's parent and has been revalidated, as has every node above it in  *)
(* the traversal.  Stated for hierarchies without cycles.                  *)
(* The code tests _is_model_valid once, before notify('model'): a callback *)
(* of that event that changes or re-parents the node leaves it invalid     *)
(* when the loop over its children starts.                                 *)

ParentRevalidatedFirst ==
    LET c == stack'[Len(stack')].node
    IN /\ parent[c] = Top.node
       /\ is_model_valid[Top.node]
       /\ \A k \in 1..Len(stack) : is_model_valid[stack[k].node]

C2_ParentRevalidatedFirst ==
    [][(InRootPass /\ CallsChildUpdate /\ \A n \in Nodes : n \notin Descendants(n))
         => ParentRevalidatedFirst]_vars

----------------------------------------------------------------------------
(* C3: in every state, a node whose model is valid has as world model its  *)
(* parent's cached world model times its own cached local model, or its    *)
(* local model when it has no parent.                                      *)

C3_ValidWorldIsComposed ==
    \A n \in Nodes : is_model_valid[n] => world_model[n] = ComposedWorld(n)

\* a valid child under a parent that has been changed and not yet updated
C3_Witness ==
    \E c \in Nodes :
        /\ is_model_valid[c] /\ parent[c] # None
        /\ ~is_model_valid[parent[c]]
        /\ world_model[parent[c]] # MatIdentity
        /\ local_model[c] # MatIdentity
        /\ local_model[parent[c]] #
               LocalModelOf(origin[parent[c]], orientation[parent[c]], scale[parent[c]])

----------------------------------------------------------------------------
(* C4: p.addChild(c) with c already parented (by p or by another node)     *)
(* throws, emits no event and changes no child set, parent or flag.        *)

C4_AddChildParentedFails ==
    [][\A p \in Nodes, c \in Nodes :
         (stack = <<>> /\ parent[c] # None /\ IsCall(call', "addChild", p, c))
         => /\ result' = "Error"
            /\ events' = <<>>
            /\ UNCHANGED <<parent, children, Flags>>]_vars

\* the call has failed for a child that another node holds
C4_Witness ==
    \E p \in Nodes, c \in Nodes :
        /\ IsCall(call, "addChild", p, c) /\ result = "Error"
        /\ parent[c] \in Nodes \ {p}
        /\ \E n \in Nodes : is_model_valid[n]

----------------------------------------------------------------------------
(* C5: p.addChild(c) with c already in p's child set is a no-op that       *)
(* raises no error, changes nothing and emits no add event.                *)
(* The code throws: c.parent is p, and the test of object.parent comes     *)
(* before the test of hasChild.                                            *)

C5_ReAddIsNoOp ==
    [][\A p \in Nodes, c \in Nodes :
         (stack = <<>> /\ hasChild(p, c) /\ IsCall(call', "addChild", p, c))
         => /\ result' # "Error"
            /\ events' = <<>>
            /\ UNCHANGED <<parent, children>>]_vars

----------------------------------------------------------------------------
(* C6: c is in p's child set if and only if c.parent is p, in every state, *)
(* the states in which a callback for add or remove runs included.         *)

C6_ChildIffParent ==
    \A p \in Nodes, c \in Nodes : hasChild(p, c) <=> parent[c] = p

\* a callback for a remove event is running inside clearChildren or destroy
C6_Witness ==
    /\ stack # <<>> /\ listening /\ events # <<>>
    /\ events[Len(events)].name = "remove"
    /\ events[Len(events)].to # <<>>
    /\ \E c \in Nodes : parent[c] # None

----------------------------------------------------------------------------
(* C7: no node is reachable from itself through child sets.                *)
(* addChild tests only object.parent: a.addChild(a) succeeds.              *)

C7_Acyclic == \A n \in Nodes : n \notin Descendants(n)

----------------------------------------------------------------------------
(* C8: p.removeChild(x) with x null or not a child of p returns false,     *)
(* emits no event and changes no child set, parent or flag; x stays with   *)
(* the parent it has.                                                      *)

C8_RemoveAbsentFails ==
    [][\A p \in Nodes, x \in Nodes \cup {None} :
         (stack = <<>> /\ (x = None \/ ~hasChild(p, x))
            /\ IsCall(call', "removeChild", p, x))
         => /\ result' = "false"
            /\ events' = <<>>
            /\ UNCHANGED <<parent, children, Flags>>]_vars

\* the call has failed for a node that is the child of another node
C8_Witness ==
    \E p \in Nodes, x \in Nodes :
        /\ IsCall(call, "removeChild", p, x) /\ result = "false"
        /\ parent[x] \in Nodes \ {p}
        /\ hasChild(parent[x], x)

----------------------------------------------------------------------------
(* C9: p.addChild(c) on a parentless c, then at once p.removeChild(c):     *)
(* removeChild returns true, c is no child of p, c.parent is undefined,    *)
(* c's model is invalid, and p emitted one add(p, c), then one             *)
(* remove(p, c).                                                           *)

C9_AddThenRemove ==
    \A p \in Nodes, c \in Nodes :
        (/\ stack = <<>>
         /\ IsCall(before.call, "addChild", p, c) /\ before.result # "Error"
         /\ IsCall(call, "removeChild", p, c))
        => /\ result = "true"
           /\ ~hasChild(p, c)
           /\ parent[c] = None
           /\ ~is_model_valid[c]
           /\ Len(before.events) = 1 /\ IsEvent(before.events[1], "add", p, c)
           /\ Len(events) = 1 /\ IsEvent(events[1], "remove", p, c)

\* the pair of calls has been made on a child whose models had been computed
C9_Witness ==
    \E p \in Nodes, c \in Nodes :
        /\ p # c
        /\ IsCall(before.call, "addChild", p, c) /\ before.result # "Error"
        /\ IsCall(call, "removeChild", p, c) /\ result = "true"
        /\ is_local_model_valid[c] = "true"

----------------------------------------------------------------------------
(* C10: every property mutation sets both flags of its node false, emits   *)
(* one event of the property's name with the property's new value, be the  *)
(* value changed or not, and changes no flag of any other node.            *)

OriginCalls == {"origin", "translate", "translateX", "translateY", "translateZ"}
OrientationCalls == {"orientation", "rotate", "rotateX", "rotateY", "rotateZ"}
SizeCalls == {"size", "scale"}
MutationCalls == OriginCalls \cup OrientationCalls \cup SizeCalls

C10_MutationInvalidates ==
    [][\A n \in Nodes :
         (stack = <<>> /\ call'.op \in MutationCalls /\ call'.self = n
            /\ calls_left' # calls_left)
         => /\ is_local_model_valid'[n] = "false"
            /\ ~is_model_valid'[n]
            /\ Len(events') = 1
            /\ events'[1].target = n
            /\ \/ /\ call'.op \in OriginCalls
                  /\ events'[1].name = "origin" /\ events'[1].arg = origin'[n]
               \/ /\ call'.op \in OrientationCalls
                  /\ events'[1].name = "orientation"
                  /\ events'[1].arg = orientation'[n]
               \/ /\ call'.op \in SizeCalls
                  /\ events'[1].name = "size" /\ events'[1].arg = scale'[n]
            /\ \A m \in Nodes \ {n} :
                  /\ is_model_valid'[m] = is_model_valid[m]
                  /\ is_local_model_valid'[m] = is_local_model_valid[m]]_vars

\* a mutation that changes no value has invalidated a node whose models were
\* valid, beside another node whose models still are
C10_Witness ==
    \E n \in Nodes, m \in Nodes :
        /\ n # m
        /\ IsCall(call, "translate", n, VecNull)
        /\ is_local_model_valid[n] = "false" /\ ~is_model_valid[n]
        /\ is_local_model_valid[m] = "true" /\ is_model_valid[m]
        /\ Len(events) = 1 /\ events[1].name = "origin"

----------------------------------------------------------------------------
(* C11: after one or more mutations of a node, the next update() that      *)
(* reaches it recomputes its local model once: one localModel event and    *)
(* one model event of that node, and the local model is the one of the     *)
(* latest origin, orientation and scale, however many mutations there      *)
(* were.                                                                   *)

C11_RecomputedOnce ==
    \A n \in Nodes :
        (/\ PassDone
         /\ n \in {call.self} \cup Descendants(call.self)
         /\ entry.state.is_local_model_valid[n] = "false")
        => /\ Cardinality(EventsOf("localModel", n)) = 1
           /\ Cardinality(EventsOf("model", n)) = 1
           /\ local_model[n] = LocalModelOf(origin[n], orientation[n], scale[n])
           /\ \A i \in EventsOf("localModel", n) : events[i].arg = local_model[n]

\* a node updated with its origin at StepVec has been translated twice more,
\* back to the null vector, and updated again
C11_Witness ==
    \E n \in Nodes :
        /\ PassDone /\ call.self = n
        /\ entry.state.is_local_model_valid[n] = "false"
        /\ entry.state.local_model[n] = MatTranslate(MatIdentity, StepVec)
        /\ origin[n] = VecNull
        /\ local_model[n] = MatIdentity

----------------------------------------------------------------------------
(* C12: in every state, from construction on and while callbacks run, a    *)
(* node whose model is valid has a valid local model: no node is ever      *)
(* (local invalid, model valid).                                           *)

C12_ValidModelHasValidLocal ==
    \A n \in Nodes : is_model_valid[n] => is_local_model_valid[n] = "true"

\* a callback has changed a node during an update pass that has made another
\* node valid and left a third as it was constructed
C12_Witness ==
    /\ stack # <<>> /\ reentered
    /\ \E n \in Nodes : is_model_valid[n]
    /\ \E n \in Nodes : is_local_model_valid[n] = "false"
    /\ \E n \in Nodes : is_local_model_valid[n] = "undefined"

----------------------------------------------------------------------------
(* C13: after destroy() on a node n of a hierarchy without cycles, no      *)
(* callback having made a call: n and every node that was below n have no  *)
(* parent, no children and no listeners, n is no child of its former       *)
(* parent, and every other node has the parent and the children it had,    *)
(* n apart.                                                                *)

C13_DestroyDetachesSubtree ==
    (stack = <<>> /\ call.op = "destroy" /\ ~reentered /\ WasAcyclic)
    => LET n == call.self
           Sub == {n} \cup DescendantsIn(entry.state, n)
       IN /\ \A m \in Sub :
                 /\ parent[m] = None
                 /\ children[m] = <<>>
                 /\ listeners[m] = <<>>
          /\ \A m \in Nodes \ Sub :
                 /\ ~hasChild(m, n)
                 /\ parent[m] = entry.state.parent[m]
                 /\ children[m] = Without(entry.state.children[m], n)

\* the node destroyed had a parent and a child with a listener of its own
C13_Witness ==
    /\ stack = <<>> /\ call.op = "destroy" /\ ~reentered /\ WasAcyclic
    /\ entry.state.parent[call.self] # None
    /\ \E c \in ChildSetIn(entry.state, call.self) :
           entry.state.listeners[c] # <<>>
    /\ Len(events) = 4

----------------------------------------------------------------------------
(* C14: destroy() called twice on the same node notifies destroy at most   *)
(* once over the two calls, and the second call changes nothing.           *)
(* The code has no test of a destroy already done: the second call ends    *)
(* with notify('destroy') as the first did.                                *)

C14_DestroyOnce ==
    \A n \in Nodes :
        (/\ stack = <<>>
         /\ IsCall(before.call, "destroy", n, None)
         /\ IsCall(call, "destroy", n, None))
        => LET Fired(evs) == {i \in 1..Len(evs) :
                                 evs[i].name = "destroy" /\ evs[i].target = n}
           IN Cardinality(Fired(before.events)) + Cardinality(Fired(events)) <= 1

----------------------------------------------------------------------------
(* C15: a mutation of the origin or the size of a node fires its event     *)
(* once, before the call returns, and every callback registered on the     *)
(* node for that event is invoked once with the new value, the callbacks   *)
(* in the order of their registration.                                     *)

\* the place of callback id among the registrations on node n
RegisteredAt(n, id) == CHOOSE i \in 1..Len(listeners[n]) : listeners[n][i].id = id

C15_ListenersInOrder ==
    [][\A n \in Nodes :
         (/\ stack = <<>> /\ calls_left' # calls_left
          /\ call'.op \in OriginCalls \cup SizeCalls /\ call'.self = n)
         => LET name == IF call'.op \in OriginCalls THEN "origin" ELSE "size"
                ids == {listeners[n][i].id : i \in {j \in 1..Len(listeners[n]) :
                                                      listeners[n][j].name = name}}
                to == events'[1].to
            IN /\ result' # "pending"
               /\ Len(events') = 1
               /\ events'[1].name = name /\ events'[1].target = n
               /\ events'[1].arg = IF name = "origin" THEN origin'[n] ELSE scale'[n]
               /\ {to[i] : i \in 1..Len(to)} = ids
               /\ Len(to) = Cardinality(ids)
               /\ \A i \in 1..Len(to), j \in 1..Len(to) :
                      i < j => RegisteredAt(n, to[i]) < RegisteredAt(n, to[j])]_vars

\* two callbacks registered for origin on one node, the one with the higher
\* id first, have been invoked in that order with the origin just set
C15_Witness ==
    \E n \in Nodes :
        /\ IsCall(call, "origin", n, StepVec)
        /\ Len(events) = 1
        /\ events[1].to = <<2, 1>>
        /\ events[1].arg = StepVec
        /\ Len(listeners[n]) = 2

----------------------------------------------------------------------------
(* C16: after clearChildren() on a node p, no callback having made a call: *)
(* p has no children, every node that was a child of p has no parent and   *)
(* an invalid model, one remove(p, child) event was fired for each of them *)
(* and no other event, and the children of the former children are still   *)
(* theirs.                                                                 *)

C16_ClearChildrenDetachesAll ==
    (stack = <<>> /\ call.op = "clearChildren" /\ ~reentered)
    => LET p == call.self
           Former == ChildSetIn(entry.state, p)
       IN /\ children[p] = <<>>
          /\ \A c \in Former :
                 /\ parent[c] = None
                 /\ ~is_model_valid[c]
                 /\ Cardinality(EventsOf("remove", p)
                                  \cap {i \in 1..Len(events) : events[i].arg = c}) = 1
          /\ Len(events) = Cardinality(Former)
          /\ \A m \in Nodes \ {p} : children[m] = entry.state.children[m]
          /\ \A m \in Nodes \ Former : parent[m] = entry.state.parent[m]

\* in a hierarchy without cycles a child with a child of its own has been
\* removed, and a callback has been told so
C16_Witness ==
    /\ stack = <<>> /\ call.op = "clearChildren" /\ ~reentered /\ WasAcyclic
    /\ \E c \in ChildSetIn(entry.state, call.self) : children[c] # <<>>
    /\ Len(events) = 1 /\ events[1].to # <<>>

----------------------------------------------------------------------------
(* C17: the loops of update, clearChildren and destroy run over the        *)
(* children the node had when the loop started, whatever a callback adds   *)
(* or removes meanwhile.  Stated for clearChildren, whose loop starts with *)
(* the call: every child its loop removes was a child when the call was    *)
(* made.  Stated for hierarchies without cycles.                           *)
(* The code iterates this._children itself: a child that a callback of     *)
(* remove adds during the loop is visited by it, and a callback that adds  *)
(* the removed child again keeps the loop going for ever.                  *)

C17_LoopOverSnapshot ==
    [][(/\ Len(stack) = 1 /\ Top.op = "clearChildren" /\ ~Top.nested
        /\ call.op = "clearChildren"
        /\ WasAcyclic /\ \A m \in Nodes : m \notin Descendants(m)
        /\ HasNext /\ calls_left' = calls_left)
       => NextChild \in ChildSetIn(entry.state, Top.node)]_vars

----------------------------------------------------------------------------
(* C18: a node comes to be (local valid, model invalid) only when the      *)
(* revalidation of its parent invalidates it; every mutation of a node and *)
(* every re-parenting of it (addChild, removeChild) leaves it (local       *)
(* invalid, model invalid).                                                *)
(* As it stands the claim fails: set parent calls _invalidateModel alone,  *)
(* so a node whose local model is valid comes to be (local valid, model    *)
(* invalid) by being re-parented.  It holds with re-parenting as a second  *)
(* origin of that state, leaving the flag of the local model as it was.    *)

\* the events this step has fired
NewEvents ==
    IF stack = <<>> THEN 1..Len(events') ELSE (Len(events) + 1)..Len(events')

LocalOnly(n) == is_local_model_valid[n] = "true" /\ ~is_model_valid[n]

\* this step has revalidated the parent of n
ParentRevalidated(n) ==
    /\ parent[n] # None
    /\ \E i \in NewEvents : events'[i].name = "model" /\ events'[i].target = parent[n]

\* this step is a mutation of n
Mutates(n) ==
    /\ stack = <<>> /\ calls_left' # calls_left
    /\ call'.op \in MutationCalls /\ call'.self = n

\* the hierarchy has no cycle
NoCycle == \A m \in Nodes : m \notin Descendants(m)

\* C18 as it stands, in hierarchies without cycles
C18_Original ==
    [][(NoCycle /\ NoCycle')
       => \A n \in Nodes :
            /\ (LocalOnly(n)' /\ ~LocalOnly(n)) => ParentRevalidated(n)
            /\ Mutates(n) => (is_local_model_valid'[n] # "true" /\ ~is_model_valid'[n])
            /\ parent'[n] # parent[n]
                  => (is_local_model_valid'[n] # "true" /\ ~is_model_valid'[n])]_vars

\* C18 as amended: a node comes to be (local valid, model invalid) only by its
\* parent's revalidation or by being re-parented; a mutation leaves it
\* (invalid, invalid); a re-parenting clears the flag of the model and leaves
\* the flag of the local model and the local model as they were
C18_LocalOnlyByParentOrReparenting ==
    [][\A n \in Nodes :
         /\ (LocalOnly(n)' /\ ~LocalOnly(n))
               => (ParentRevalidated(n) \/ parent'[n] # parent[n])
         /\ Mutates(n) => (is_local_model_valid'[n] = "false" /\ ~is_model_valid'[n])
         /\ parent'[n] # parent[n]
               => /\ ~is_model_valid'[n]
                  /\ is_local_model_valid'[n] = is_local_model_valid[n]
                  /\ local_model'[n] = local_model[n]]_vars

\* a node with both models valid has been added to a parent
C18_Witness ==
    \E p \in Nodes, c \in Nodes :
        /\ p # c
        /\ IsCall(call, "addChild", p, c) /\ parent[c] = p
        /\ entry.state.is_model_valid[c]
        /\ entry.state.is_local_model_valid[c] = "true"
        /\ is_local_model_valid[c] = "true" /\ ~is_model_valid[c]
        /\ local_model[c] # MatIdentity

----------------------------------------------------------------------------
(* C19: the revalidation of a node clears the flag of the model of each of *)
(* its children and of no other node, and changes neither the flag of the  *)
(* local model nor the local model of any other node; the revalidation of  *)
(* a node whose local model is valid fires the model event alone and       *)
(* leaves its local model as it was.                                       *)

\* this step has revalidated n
Revalidated(n) ==
    \E i \in NewEvents : events'[i].name = "model" /\ events'[i].target = n

C19_RevalidationFrame ==
    [][\A n \in Nodes :
         Revalidated(n)
         => /\ \A c \in Nodes : hasChild(n, c) => ~is_model_valid'[c]
            /\ ~hasChild(n, n) => is_model_valid'[n]
            /\ \A m \in Nodes \ {n} :
                  /\ ~hasChild(n, m) => is_model_valid'[m] = is_model_valid[m]
                  /\ is_local_model_valid'[m] = is_local_model_valid[m]
                  /\ local_model'[m] = local_model[m]
            /\ is_local_model_valid[n] = "true"
                  => /\ Cardinality(NewEvents) = 1
                     /\ local_model'[n] = local_model[n]
                     /\ is_local_model_valid'[n] = "true"]_vars

\* the root of a chain of three valid nodes has been changed: its update has
\* recomputed the world model of its child alone, and the grandchild, whose
\* local model stays valid, is next
C19_Witness ==
    \E r \in Nodes, c \in Nodes, g \in Nodes :
        /\ parent[r] = None /\ parent[c] = r /\ parent[g] = c
        /\ Len(stack) = 2 /\ call.op = "update" /\ call.self = r
        /\ Len(events) = 3
        /\ events[1].name = "localModel" /\ events[1].target = r
        /\ events[2].name = "model" /\ events[2].target = r
        /\ events[3].name = "model" /\ events[3].target = c
        /\ is_model_valid[c]
        /\ is_local_model_valid[g] = "true" /\ ~is_model_valid[g]
        /\ entry.state.is_model_valid[g]

----------------------------------------------------------------------------
(* C20: in one update() pass from a root, no callback making a call, a     *)
(* node of the tree fires one model event if its model or the model of one *)
(* of its ancestors was invalid when the pass began, also below nodes that *)
(* were valid; every other node fires no event and keeps its local and     *)
(* world model.  A second update() right after the first fires no event    *)
(* and changes nothing.                                                    *)

RECURSIVE AncestorsIn(_, _, _)
\* the nodes above n in the objects S, at most k levels up
AncestorsIn(S, n, k) ==
    IF k = 0 \/ S.parent[n] = None THEN {}
    ELSE {S.parent[n]} \cup AncestorsIn(S, S.parent[n], k - 1)

\* the model of n or of a node above it was invalid when the call was made
WasDirty(n) ==
    \E a \in {n} \cup AncestorsIn(entry.state, n, NumNodes) :
        ~entry.state.is_model_valid[a]

C20_RevalidatedIffDirty ==
    (PassDone /\ call.root)
    => LET r == call.self
           Tree == {r} \cup DescendantsIn(entry.state, r)
       IN /\ \A n \in Tree :
                IF WasDirty(n)
                THEN Cardinality(EventsOf("model", n)) = 1
                ELSE /\ \A i \in 1..Len(events) : events[i].target # n
                     /\ local_model[n] = entry.state.local_model[n]
                     /\ world_model[n] = entry.state.world_model[n]
          /\ \A i \in 1..Len(events) : events[i].target \in Tree
          /\ (IsCall(before.call, "update", r, None) /\ before.call.root)
                => (events = <<>> /\ Snapshot(Cur) = entry.state)

\* the second of two successive passes from a root with a child; the first
\* had reached the child, changed since its last update, through the valid root
C20_Witness ==
    \E r \in Nodes, c \in Nodes :
        /\ PassDone /\ call.root /\ call.self = r
        /\ IsCall(before.call, "update", r, None)
        /\ parent[c] = r
        /\ Len(before.events) = 2
        /\ before.events[1].name = "localModel" /\ before.events[1].target = c
        /\ before.events[2].name = "model" /\ before.events[2].target = c
        /\ local_model[c] # MatIdentity
        /\ events = <<>>

----------------------------------------------------------------------------
(* C21: destroy() on a node invokes no callback registered on the node,    *)
(* neither for its destroy event nor for the remove events of its          *)
(* children, nor any callback of a node below it: the call itself fires    *)
(* remove(parent, node) once to the callbacks the former parent has for    *)
(* remove, when there is a parent, and clears the node's listeners; every  *)
(* event the call fires after that reaches no callback.                    *)

\* this step is a call of destroy() on n, by the caller or by a callback
CallsDestroy(n) ==
    /\ calls_left' # calls_left
    /\ Len(stack') = Len(stack) + 1
    /\ stack'[Len(stack')].op = "destroy" /\ stack'[Len(stack')].node = n

\* this step belongs to the loop or the end of a destroy() in progress
ContinuesDestroy ==
    /\ stack # <<>> /\ Top.op = "destroy"
    /\ calls_left' = calls_left

----------------------------------------------------------------------------
(* Program.ready(): two createShader() chains, joined by Promise.all, then *)
(* compileProgram, then qualifyAll.  Each action is one callback of the    *)
(* chain, or one settlement the platform makes.                            *)

object3d_vars == <<parent, children, origin, orientation, scale,
                   is_model_valid, is_local_model_valid, local_model,
                   world_model, listeners, stack, listening, call, result,
                   events, reentered, before, entry, calls_left>>

Stage(name, type) == [stage |-> name, type |-> type]

Logged(P, stages) == [P EXCEPT !.log = P.log \o stages]

\* ready(): both createShader() are called, each starts its fetch, and the
\* chain Promise.all(..).then(compileProgram).then(qualifyAll) is built
ready ==
    /\ program.returned = "none"
    /\ program' = [program EXCEPT !.created = [t \in ShaderTypes |-> "fetching"],
                                  !.all = "pending",
                                  !.compiled = "pending",
                                  !.returned = "pending"]
    /\ UNCHANGED object3d_vars

\* createShader(): fetch(file).then(response => response.text()) settles
Fetched(type, ok) ==
    /\ program.created[type] = "fetching"
    /\ program' = [program EXCEPT !.created[type] = IF ok THEN "body" ELSE "rejected"]
    /\ UNCHANGED object3d_vars

\* createShader(): the callback that receives the body compiles the shader,
\* throws when COMPILE_STATUS is false and stores the shader otherwise
ShaderBody(type, status) ==
    /\ program.created[type] = "body"
    /\ LET P == Logged(program, <<Stage("compileShader", type)>>)
       IN program' = IF status
                     THEN [P EXCEPT !.shaders = P.shaders \cup {type},
                                    !.created[type] = "fulfilled"]
                     ELSE [P EXCEPT !.created[type] = "rejected"]
    /\ UNCHANGED object3d_vars

\* Promise.all(shaders) fulfils once one promise only has been fulfilled
AllSettledOnFirst ==
    /\ program.all = "pending"
    /\ \E t \in ShaderTypes : program.created[t] \in {"fulfilled", "rejected"}
    /\ program' = [program EXCEPT !.all =
                      IF \E t \in ShaderTypes : program.created[t] = "fulfilled"
                      THEN "fulfilled" ELSE "rejected"]
    /\ UNCHANGED object3d_vars

\* Promise.all(shaders): rejected as soon as one promise is rejected,
\* fulfilled once both are fulfilled
AllSettled ==
    /\ program.all = "pending"
    /\ \/ \E t \in ShaderTypes : program.created[t] = "rejected"
       \/ \A t \in ShaderTypes : program.created[t] = "fulfilled"
    /\ program' = [program EXCEPT !.all =
                      IF \E t \in ShaderTypes : program.created[t] = "rejected"
                      THEN "rejected" ELSE "fulfilled"]
    /\ UNCHANGED object3d_vars

\* compileProgram(shaders): shaders are the values of the fulfilled promises,
\* in the order of the array
compileProgram(link_status, validate_status) ==
    /\ program.all = "fulfilled" /\ program.compiled = "pending"
    /\ LET shaders == SelectSeq(ShaderOrder, LAMBDA t : program.created[t] = "fulfilled")
           P1 == [Logged(program,
                         <<Stage("createProgram", "")>>
                         \o [i \in 1..Len(shaders) |-> Stage("attachShader", shaders[i])]
                         \o <<Stage("linkProgram", "")>>)
                  EXCEPT !.has_program = TRUE, !.attached = shaders]
           P2 == [Logged(P1, <<Stage("validateProgram", "")>>) EXCEPT !.link = "ok"]
       IN program' =
            IF ~link_status
            THEN [P1 EXCEPT !.link = "failed", !.compiled = "rejected"]
            ELSE IF ~validate_status
            THEN [P2 EXCEPT !.validate = "failed", !.compiled = "rejected"]
            ELSE [P2 EXCEPT !.validate = "ok", !.compiled = "fulfilled"]
    /\ UNCHANGED object3d_vars

\* .then(compileProgram) on a rejected promise: the callback is not run
CompileSkipped ==
    /\ program.all = "rejected" /\ program.compiled = "pending"
    /\ program' = [program EXCEPT !.compiled = "rejected"]
    /\ UNCHANGED object3d_vars

\* qualify(parameter): the location of each active parameter is recorded
qualify(P, parameter, num) ==
    LET P1 == Logged(P, <<Stage("qualify", parameter)>>)
    IN IF parameter = "ACTIVE_UNIFORMS"
       THEN [P1 EXCEPT !.uniforms = 1..num]
       ELSE [P1 EXCEPT !.attributes = 1..num]

\* qualifyAll(): the uniforms, then the attributes
qualifyAll(uniforms, attributes) ==
    /\ program.compiled = "fulfilled" /\ program.qualified = "none"
    /\ program' = [qualify(qualify(program, "ACTIVE_UNIFORMS", uniforms),
                           "ACTIVE_ATTRIBUTES", attributes)
                   EXCEPT !.qualified = "fulfilled"]
    /\ UNCHANGED object3d_vars

\* .then(qualifyAll) on a rejected promise: the callback is not run
QualifySkipped ==
    /\ program.compiled = "rejected" /\ program.returned = "pending"
    /\ program' = [program EXCEPT !.returned = "rejected"]
    /\ UNCHANGED object3d_vars

\* the promise ready() returned takes the state of the one qualifyAll returned
Resolved ==
    /\ program.qualified = "fulfilled" /\ program.returned = "pending"
    /\ program' = [program EXCEPT !.returned = "fulfilled"]
    /\ UNCHANGED object3d_vars

\* the callbacks and settlements that follow the two createShader() chains
Reaction ==
    \/ AllSettled
    \/ \E l \in BOOLEAN, v \in BOOLEAN : compileProgram(l, v)
    \/ CompileSkipped
    \/ \E u \in 0..MaxActive, a \in 0..MaxActive : qualifyAll(u, a)
    \/ QualifySkipped
    \/ Resolved

InitG == StartedAt(0, FALSE, FALSE)

NextG ==
    \/ ready
    \/ \E t \in ShaderTypes, ok \in BOOLEAN : Fetched(t, ok)
    \/ \E t \in ShaderTypes, status \in BOOLEAN : ShaderBody(t, status)
    \/ AllSettled
    \/ \E l \in BOOLEAN, v \in BOOLEAN : compileProgram(l, v)
    \/ CompileSkipped
    \/ \E u \in 0..MaxActive, a \in 0..MaxActive : qualifyAll(u, a)
    \/ QualifySkipped
    \/ Resolved

SpecG == InitG /\ [][NextG]_vars

----------------------------------------------------------------------------
(* C22: the promise ready() returns is fulfilled only after both shaders   *)
(* have been fetched and compiled (in either order), then the program      *)
(* created, linked and validated, then the uniform and the attribute       *)
(* locations recorded, in that order; when a createShader() promise is     *)
(* rejected no program is created and neither compileProgram nor           *)
(* qualifyAll runs; when the link or the validation fails nothing later    *)
(* runs; and in each of these cases the returned promise is never          *)
(* fulfilled and is rejected once the chain has nothing left to run.       *)

StagesAfterShaders ==
    <<Stage("createProgram", ""),
      Stage("attachShader", "VERTEX_SHADER"), Stage("attachShader", "FRAGMENT_SHADER"),
      Stage("linkProgram", ""), Stage("validateProgram", ""),
      Stage("qualify", "ACTIVE_UNIFORMS"), Stage("qualify", "ACTIVE_ATTRIBUTES")>>

ShaderFailed == \E t \in ShaderTypes : program.created[t] = "rejected"

LinkFailed == program.link = "failed"

ValidateFailed == program.validate = "failed"

C22_ReadyAfterAllStages ==
    /\ program.returned = "fulfilled"
         => /\ program.shaders = ShaderTypes
            /\ program.has_program /\ program.attached = ShaderOrder
            /\ program.link = "ok" /\ program.validate = "ok"
            /\ \E a \in ShaderTypes, b \in ShaderTypes :
                  /\ a # b
                  /\ program.log = <<Stage("compileShader", a), Stage("compileShader", b)>>
                                      \o StagesAfterShaders
    /\ ShaderFailed
         => /\ ~program.has_program
            /\ \A i \in 1..Len(program.log) : program.log[i].stage = "compileShader"
    /\ LinkFailed
         => /\ program.log[Len(program.log)] = Stage("linkProgram", "")
            /\ program.compiled = "rejected"
    /\ ValidateFailed
         => /\ program.log[Len(program.log)] = Stage("validateProgram", "")
            /\ program.compiled = "rejected"
    /\ (ShaderFailed \/ LinkFailed \/ ValidateFailed)
         => /\ program.returned # "fulfilled"
            /\ ~ENABLED Reaction => program.returned = "rejected"

\* ready() has succeeded although the fragment shader was compiled first
C22_Witness ==
    /\ program.returned = "fulfilled"
    /\ program.log[1] = Stage("compileShader", "FRAGMENT_SHADER")
    /\ program.uniforms # {} /\ program.attributes # {}

====
